---------------------------- MODULE Spec2Model ----------------------------
(***************************************************************************)
(* The index layer of spatial-narrative: SpatialIndex, TemporalIndex,      *)
(* SlidingWindowIter and SpatiotemporalIndex (src/src/index).              *)
(*                                                                         *)
(* Conventions.                                                            *)
(*  - A coordinate (f64 degrees) is an integer; only finite values are     *)
(*    modelled, and every comparison the code makes on them is kept.       *)
(*  - A Timestamp is an integer count of ticks; TicksPerMilli ticks make   *)
(*    one millisecond, so a tick that is not a multiple of TicksPerMilli   *)
(*    carries a sub-millisecond part.  Timestamp's precision tag is not    *)
(*    read by the index layer nor by Ord and is left out.                  *)
(*  - A radius (f64) is a fraction [num, den] in lowest terms with         *)
(*    den > 0, so that the division and the 1.5 of query_radius_meters    *)
(*    are exact.                                                           *)
(*  - Option<T>: None is <<>>, Some(x) is <<x>>.                           *)
(*  - A handle is the 0-based position of an item in an items vector; the  *)
(*    vector itself is a 1-based sequence, so items[i] is items[i + 1].    *)
(*  - A call that panics leaves status "panic" in out.                     *)
(***************************************************************************)
EXTENDS Integers, Sequences, FiniteSets, TLC

VARIABLES
    spatial,    \* a SpatialIndex<&str> used on its own
    temporal,   \* a TemporalIndex<&str> used on its own
    st,         \* a SpatiotemporalIndex<&str>
    iter,       \* the live SlidingWindowIter over temporal, if any
    hist,       \* what the latest SlidingWindowIter has returned so far
    out,        \* the last call and what it returned
    inserts     \* number of insert calls made so far on the index in use

vars == <<spatial, temporal, st, iter, hist, out, inserts>>

----------------------------------------------------------------------------
(* Bounds of the model *)

MaxItems == 3
MaxItemsST == 2
MaxTick == 5
TicksPerMilli == 2
MaxCalls == 5
UsizeBits == 3
I64Bits == 4

Lats == 0 .. 2
Lons == 0 .. 2
Ticks == 0 .. MaxTick
WindowSizes == (-1 .. 3) \cup {2 ^ (I64Bits - 1) - 1}
Ks == 0 .. MaxItems + 1

\* The coordinates and radii of the radius queries: the equator and the
\* parallel of 60 degrees, radii in degrees and in meters.
RadiusLats == {0, 60}
RadiusLons == 0 .. 2
RadiusDegrees == -2 .. 2
RadiusMeters == {-111320, 0, 111320, 222640}

\* The locations, bounds and cell counts of the heatmaps
HeatLats == 0 .. 2
HeatLons == 0 .. 1
HeatCells == 0 .. 2

\* usize::MAX
UsizeMax == 2 ^ UsizeBits - 1

NearLats == {0}
NearLons == 0 .. 2
NearMillis == 0 .. 2

STLats == 0 .. 1
STLons == 0 .. 1
STTicks == 0 .. 2

\* The items the callers insert: the n-th insert call passes Names[n].
Names == <<"a", "b", "c", "d", "e">>

----------------------------------------------------------------------------
(* Helpers standing for the std collections the code uses *)

None == <<>>
Some(x) == <<x>>

\* A variant of min that returns its first argument.
Left2(a, b) == a

Min2(a, b) == IF a <= b THEN a ELSE b
Max2(a, b) == IF a >= b THEN a ELSE b

SetMin(S) == CHOOSE x \in S : \A y \in S : x <= y
SetMax(S) == CHOOSE x \in S : \A y \in S : x >= y

SeqToSet(s) == {s[n] : n \in 1 .. Len(s)}

\* All the orders in which the elements of S can be enumerated.
Orderings(S) ==
    {f \in [1 .. Cardinality(S) -> S] :
        \A i, j \in 1 .. Cardinality(S) : i # j => f[i] # f[j]}

RECURSIVE SortedSeq(_)
SortedSeq(S) ==
    IF S = {} THEN <<>>
    ELSE LET m == SetMin(S) IN <<m>> \o SortedSeq(S \ {m})

\* .map(|&i| &self.items[i]) over a sequence of handles
Resolve(items, handles) == [n \in 1 .. Len(handles) |-> items[handles[n] + 1]]

----------------------------------------------------------------------------
(* core::Timestamp, core::TimeRange, core::GeoBounds *)

to_unix_millis(ts) == ts \div TicksPerMilli

from_unix_millis(millis) == Some(millis * TicksPerMilli)

TimeRange_new(start, end) == [start |-> start, end |-> end]

TimeRange_contains(range, ts) == ts >= range.start /\ ts <= range.end

Location_new(lat, lon) == [lat |-> lat, lon |-> lon]

GeoBounds_new(min_lat, min_lon, max_lat, max_lon) ==
    [min_lat |-> min_lat, min_lon |-> min_lon,
     max_lat |-> max_lat, max_lon |-> max_lon]

GeoBounds_contains(b, location) ==
    /\ location.lat >= b.min_lat
    /\ location.lat <= b.max_lat
    /\ location.lon >= b.min_lon
    /\ location.lon <= b.max_lon

\* A variant of expand_to_include that only grows the bounds to the north
\* and to the east.
GeoBounds_expand_max_only(b, location) ==
    [min_lat |-> b.min_lat,
     max_lat |-> Max2(b.max_lat, location.lat),
     min_lon |-> b.min_lon,
     max_lon |-> Max2(b.max_lon, location.lon)]

GeoBounds_expand_to_include(b, location) ==
    [min_lat |-> Min2(b.min_lat, location.lat),
     max_lat |-> Max2(b.max_lat, location.lat),
     min_lon |-> Min2(b.min_lon, location.lon),
     max_lon |-> Max2(b.max_lon, location.lon)]

\* The loop of from_locations over the locations from the n-th on
RECURSIVE GeoBounds_expand_all(_, _, _)
GeoBounds_expand_all(b, locations, n) ==
    IF n > Len(locations) THEN b
    ELSE GeoBounds_expand_all(GeoBounds_expand_to_include(b, locations[n]),
                              locations, n + 1)

GeoBounds_from_locations(locations) ==
    IF locations = <<>> THEN None
    ELSE LET first == locations[1]
             bounds == GeoBounds_new(first.lat, first.lon, first.lat, first.lon)
         IN  Some(GeoBounds_expand_all(bounds, locations, 2))

----------------------------------------------------------------------------
(* rstar, as index/spatial.rs uses it.  The R-tree is the set of the        *)
(* objects inserted; the order in which a selection enumerates them is the *)
(* tree's traversal order, which the model leaves open.                    *)

\* AABB::from_point
AABB_from_point(p) == [lower |-> p, upper |-> p]

\* AABB::from_corners: the box spanned by two points, whichever is given first
AABB_from_corners(p1, p2) ==
    [lower |-> <<Min2(p1[1], p2[1]), Min2(p1[2], p2[2])>>,
     upper |-> <<Max2(p1[1], p2[1]), Max2(p1[2], p2[2])>>]

\* Envelope::contains_envelope
contains_envelope(outer, inner) ==
    \A d \in 1 .. 2 :
        outer.lower[d] <= inner.lower[d] /\ inner.upper[d] <= outer.upper[d]

----------------------------------------------------------------------------
(* index/spatial.rs *)

\* A variant of IndexedLocation::new that gives every location the handle 0.
IndexedLocation_zero(location, index) == [location |-> location, index |-> 0]

IndexedLocation_new(location, index) == [location |-> location, index |-> index]

\* impl RTreeObject for IndexedLocation
envelope(il) == AABB_from_point(<<il.location.lon, il.location.lat>>)

\* impl PointDistance for IndexedLocation
distance_2(il, point) ==
    LET dx == il.location.lon - point[1]
        dy == il.location.lat - point[2]
    IN  dx * dx + dy * dy

\* RTree::locate_in_envelope: the objects whose envelope lies in env
locate_in_envelope(tree, env) ==
    {il \in tree : contains_envelope(env, envelope(il))}

SpatialIndex_new == [tree |-> {}, items |-> <<>>]

\* A variant of insert that takes a location already in the tree for a
\* duplicate and stores nothing.
SpatialIndex_insert_dedup(ix, item, location) ==
    LET index == Len(ix.items)
    IN  IF \E il \in ix.tree : il.location = location THEN ix
        ELSE [items |-> Append(ix.items, item),
              tree  |-> ix.tree \cup {IndexedLocation_new(location, index)}]

SpatialIndex_insert(ix, item, location) ==
    LET index == Len(ix.items)
    IN  [items |-> Append(ix.items, item),
         tree  |-> ix.tree \cup {IndexedLocation_new(location, index)}]

\* The results query_bbox can return: one per traversal order.
SpatialIndex_query_bbox(ix, min_lat, min_lon, max_lat, max_lon) ==
    LET env == AABB_from_corners(<<min_lon, min_lat>>, <<max_lon, max_lat>>)
        found == locate_in_envelope(ix.tree, env)
    IN  {[n \in 1 .. Len(ord) |-> ix.items[ord[n].index + 1]] :
            ord \in Orderings(found)}

SpatialIndex_query_bounds(ix, bounds) ==
    SpatialIndex_query_bbox(ix, bounds.min_lat, bounds.min_lon,
                            bounds.max_lat, bounds.max_lon)

\* f64 values that are not whole: fractions in lowest terms
RECURSIVE Gcd(_, _)
Gcd(a, b) == IF b = 0 THEN a ELSE Gcd(b, a % b)

Abs(a) == IF a < 0 THEN -a ELSE a

\* num / den as f64: 0/0 is NaN, a non-zero value over 0 an infinity.
Frac(num, den) ==
    IF num = 0 /\ den = 0 THEN [num |-> 0, den |-> 0]
    ELSE LET g == Gcd(Abs(num), Abs(den))
             sign == IF den < 0 THEN -1 ELSE 1
         IN  [num |-> sign * (num \div g), den |-> sign * (den \div g)]

FracMul(x, y) == Frac(x.num * y.num, x.den * y.den)

FracDiv(x, y) == Frac(x.num * y.den, x.den * y.num)

\* whole <= x
LeqFrac(whole, x) == whole * x.den <= x.num

\* RTree::locate_within_distance: the objects whose distance_2 to the point
\* is at most max_squared_radius
locate_within_distance(tree, point, max_squared_radius) ==
    {il \in tree : LeqFrac(distance_2(il, point), max_squared_radius)}

\* The results query_radius can return: one per traversal order.
SpatialIndex_query_radius(ix, lat, lon, radius_degrees) ==
    LET radius_sq == FracMul(radius_degrees, radius_degrees)
        found == locate_within_distance(ix.tree, <<lon, lat>>, radius_sq)
    IN  {[n \in 1 .. Len(ord) |-> ix.items[ord[n].index + 1]] :
            ord \in Orderings(found)}

\* 111_320.0: meters in one degree of latitude
MetersPerDegree == 111320

SpatialIndex_query_radius_meters(ix, lat, lon, radius_meters) ==
    LET degree_radius == FracMul(FracDiv(radius_meters, Frac(MetersPerDegree, 1)),
                                 Frac(3, 2))
        candidates == SpatialIndex_query_radius(ix, lat, lon, degree_radius)
    IN  candidates

\* RTree::nearest_neighbor_iter: the orders in which the objects can come,
\* nearest first; objects at the same distance come in either order.
nearest_neighbor_iter(tree, point) ==
    {ord \in Orderings(tree) :
        \A m, n \in 1 .. Cardinality(tree) :
            m < n => distance_2(ord[m], point) <= distance_2(ord[n], point)}

\* A variant of nearest_neighbor that returns any object of the tree.
nearest_neighbor_any(tree, point) ==
    IF tree = {} THEN {None} ELSE {Some(il) : il \in tree}

\* RTree::nearest_neighbor: the objects it can return
nearest_neighbor(tree, point) ==
    IF tree = {} THEN {None}
    ELSE {Some(il) : il \in {il \in tree :
              \A other \in tree : distance_2(il, point) <= distance_2(other, point)}}

\* Iterator::take
take(s, n) == SubSeq(s, 1, Min2(n, Len(s)))

\* A variant of nearest that fetches the k objects in tree order.
SpatialIndex_nearest_unordered(ix, lat, lon, k) ==
    {[n \in 1 .. Min2(k, Len(ord)) |-> ix.items[ord[n].index + 1]] :
        ord \in Orderings(ix.tree)}

\* The results nearest can return
SpatialIndex_nearest(ix, lat, lon, k) ==
    {[n \in 1 .. Len(take(ord, k)) |-> ix.items[take(ord, k)[n].index + 1]] :
        ord \in nearest_neighbor_iter(ix.tree, <<lon, lat>>)}

\* The results nearest_one can return
SpatialIndex_nearest_one(ix, lat, lon) ==
    {IF found = None THEN None ELSE Some(ix.items[found[1].index + 1]) :
        found \in nearest_neighbor(ix.tree, <<lon, lat>>)}

SpatialIndex_len(ix) == Len(ix.items)

SpatialIndex_is_empty(ix) == ix.items = <<>>

----------------------------------------------------------------------------
(* std BTreeMap<i64, Vec<usize>>, as index/temporal.rs uses it: a function *)
(* from the keys present to their buckets.  A range bound is               *)
(* <<"Included", k>>, <<"Excluded", k>> or <<"Unbounded">>.                *)

Included(k) == <<"Included", k>>
Excluded(k) == <<"Excluded", k>>
Unbounded == <<"Unbounded">>

\* BTreeMap::range panics if start > end, or if start = end and both bounds
\* are excluded.  The bounds are checked during the descent from the root, so
\* a map that never held an entry (no root) returns the empty range instead.
RangePanics(tree, lo, hi) ==
    /\ DOMAIN tree # {}
    /\ lo # Unbounded
    /\ hi # Unbounded
    /\ \/ lo[2] > hi[2]
       \/ lo[2] = hi[2] /\ lo[1] = "Excluded" /\ hi[1] = "Excluded"

AboveLower(lo, k) ==
    CASE lo[1] = "Included" -> k >= lo[2]
      [] lo[1] = "Excluded" -> k > lo[2]
      [] OTHER -> TRUE

BelowUpper(hi, k) ==
    CASE hi[1] = "Included" -> k <= hi[2]
      [] hi[1] = "Excluded" -> k < hi[2]
      [] OTHER -> TRUE

\* BTreeMap::range, when it does not panic: the keys in range, ascending
RangeKeys(tree, lo, hi) ==
    SortedSeq({k \in DOMAIN tree : AboveLower(lo, k) /\ BelowUpper(hi, k)})

\* .flat_map(|(_, indices)| indices.iter()) over the entries of keys
RECURSIVE FlatIndices(_, _)
FlatIndices(tree, keys) ==
    IF keys = <<>> THEN <<>>
    ELSE tree[Head(keys)] \o FlatIndices(tree, Tail(keys))

\* A variant of the push that starts the bucket of the key afresh.
EntryReplace(tree, key, idx) ==
    [k \in DOMAIN tree \cup {key} |-> IF k = key THEN <<idx>> ELSE tree[k]]

\* tree.entry(key).or_insert_with(Vec::new).push(idx)
EntryPush(tree, key, idx) ==
    [k \in DOMAIN tree \cup {key} |->
        IF k = key
        THEN (IF key \in DOMAIN tree THEN Append(tree[key], idx) ELSE <<idx>>)
        ELSE tree[k]]

EmptyMap == [k \in {} |-> <<>>]

----------------------------------------------------------------------------
(* index/temporal.rs *)

Ok(v) == [status |-> "ok", value |-> v]
Panic == [status |-> "panic", value |-> <<>>]

TemporalIndex_new == [tree |-> EmptyMap, items |-> <<>>, timestamps |-> <<>>]

TemporalIndex_insert(ix, item, timestamp) ==
    LET idx == Len(ix.items)
        key == to_unix_millis(timestamp)
    IN  [items      |-> Append(ix.items, item),
         timestamps |-> Append(ix.timestamps, timestamp),
         tree       |-> EntryPush(ix.tree, key, idx)]

\* self.tree.range(lo, hi).flat_map(...).collect(), shared by the queries
TemporalIndex_collect(ix, lo, hi) ==
    IF RangePanics(ix.tree, lo, hi) THEN Panic
    ELSE Ok(Resolve(ix.items, FlatIndices(ix.tree, RangeKeys(ix.tree, lo, hi))))

TemporalIndex_query_range(ix, range) ==
    LET start_key == to_unix_millis(range.start)
        end_key == to_unix_millis(range.end)
    IN  TemporalIndex_collect(ix, Included(start_key), Included(end_key))

\* A variant of before that includes the key of the timestamp.
TemporalIndex_before_inclusive(ix, timestamp) ==
    LET key == to_unix_millis(timestamp)
    IN  TemporalIndex_collect(ix, Unbounded, Included(key))

TemporalIndex_before(ix, timestamp) ==
    LET key == to_unix_millis(timestamp)
    IN  TemporalIndex_collect(ix, Unbounded, Excluded(key))

\* A variant of after that starts at the key of the timestamp.
TemporalIndex_after_inclusive(ix, timestamp) ==
    LET key == to_unix_millis(timestamp)
    IN  TemporalIndex_collect(ix, Included(key), Unbounded)

TemporalIndex_after(ix, timestamp) ==
    LET key == to_unix_millis(timestamp)
    IN  TemporalIndex_collect(ix, Included(key + 1), Unbounded)

TemporalIndex_at_or_before(ix, timestamp) ==
    LET key == to_unix_millis(timestamp)
    IN  TemporalIndex_collect(ix, Unbounded, Included(key))

TemporalIndex_at_or_after(ix, timestamp) ==
    LET key == to_unix_millis(timestamp)
    IN  TemporalIndex_collect(ix, Included(key), Unbounded)

\* Iterator::rev over a sequence
rev(s) == [n \in 1 .. Len(s) |-> s[Len(s) + 1 - n]]

\* A variant of first that takes the item inserted first.
TemporalIndex_first_inserted(ix) ==
    IF ix.items = <<>> THEN None ELSE Some(ix.items[1])

TemporalIndex_first(ix) ==
    IF DOMAIN ix.tree = {} THEN None
    ELSE LET indices == ix.tree[SetMin(DOMAIN ix.tree)]
         IN  IF indices = <<>> THEN None ELSE Some(ix.items[indices[1] + 1])

TemporalIndex_last(ix) ==
    IF DOMAIN ix.tree = {} THEN None
    ELSE LET indices == ix.tree[SetMax(DOMAIN ix.tree)]
         IN  IF indices = <<>> THEN None
             ELSE Some(ix.items[indices[Len(indices)] + 1])

TemporalIndex_chronological(ix) ==
    Resolve(ix.items, FlatIndices(ix.tree, SortedSeq(DOMAIN ix.tree)))

\* A variant of reverse_chronological that keeps the order inside a bucket.
TemporalIndex_reverse_keys_only(ix) ==
    Resolve(ix.items, FlatIndices(ix.tree, rev(SortedSeq(DOMAIN ix.tree))))

TemporalIndex_reverse_chronological(ix) ==
    LET reversed == [k \in DOMAIN ix.tree |-> rev(ix.tree[k])]
    IN  Resolve(ix.items, FlatIndices(reversed, rev(SortedSeq(DOMAIN ix.tree))))

\* A variant of time_range that ends at the first key.
TemporalIndex_time_range_first(ix) ==
    IF DOMAIN ix.tree = {} THEN None
    ELSE LET start == from_unix_millis(SetMin(DOMAIN ix.tree))
         IN  Some(TimeRange_new(start[1], start[1]))

TemporalIndex_time_range(ix) ==
    IF DOMAIN ix.tree = {} THEN None
    ELSE LET first_key == SetMin(DOMAIN ix.tree)
             last_key == SetMax(DOMAIN ix.tree)
             start == from_unix_millis(first_key)
             end == from_unix_millis(last_key)
         IN  IF start = None \/ end = None THEN None
             ELSE Some(TimeRange_new(start[1], end[1]))

TemporalIndex_len(ix) == Len(ix.items)

TemporalIndex_is_empty(ix) == ix.items = <<>>

\* TemporalIndex::sliding_window: the iterator's fields (index is the borrow
\* of the TemporalIndex, which the model keeps in temporal)
TemporalIndex_sliding_window(ix, window_millis) ==
    [window_millis |-> window_millis,
     current_start |-> IF DOMAIN ix.tree = {} THEN None
                       ELSE Some(SetMin(DOMAIN ix.tree))]

\* i64::MAX
I64Max == 2 ^ (I64Bits - 1) - 1

\* The result v of an arithmetic operation on i64: out of range, it panics
\* in a build with overflow checks and wraps in a build without.
i64_checked(v, overflow_checks) ==
    IF v >= -I64Max - 1 /\ v <= I64Max THEN Ok(v)
    ELSE IF overflow_checks THEN Panic
    ELSE Ok(((v + I64Max + 1) % (2 * (I64Max + 1))) - (I64Max + 1))

RECURSIVE SlidingWindowIter_next(_, _, _, _)

\* A variant of next that returns the window it finds without looking
\* whether it is empty.
SlidingWindowIter_next_noskip(ix, window_millis, current_start, overflow_checks) ==
    IF current_start = None
    THEN [status |-> "ok", value |-> None, current_start |-> None]
    ELSE LET start == current_start[1]
             end == start + window_millis
             later == RangeKeys(ix.tree, Included(start + 1), Unbounded)
             next_start == IF later = <<>> THEN None ELSE Some(Head(later))
             found == TemporalIndex_collect(ix, Included(start), Excluded(end))
         IN  IF found.status = "panic"
             THEN [status |-> "panic", value |-> None,
                   current_start |-> next_start]
             ELSE [status |-> "ok", value |-> Some(found.value),
                   current_start |-> next_start]

\* A variant of next that, once the keys are consumed, starts again from the
\* first key instead of returning None.
SlidingWindowIter_next_restart(ix, window_millis, current_start, overflow_checks) ==
    LET from == IF current_start = None /\ DOMAIN ix.tree # {}
                THEN Some(SetMin(DOMAIN ix.tree))
                ELSE current_start
    IN  IF from = None
        THEN [status |-> "ok", value |-> None, current_start |-> None]
        ELSE LET start == from[1]
                 end == start + window_millis
                 later == RangeKeys(ix.tree, Included(start + 1), Unbounded)
                 next_start == IF later = <<>> THEN None ELSE Some(Head(later))
                 found == TemporalIndex_collect(ix, Included(start), Excluded(end))
             IN  IF found.status = "panic"
                 THEN [status |-> "panic", value |-> None,
                       current_start |-> next_start]
                 ELSE IF found.value = <<>> /\ next_start # None
                 THEN SlidingWindowIter_next(ix, window_millis, next_start, overflow_checks)
                 ELSE IF found.value = <<>>
                 THEN [status |-> "ok", value |-> None,
                       current_start |-> next_start]
                 ELSE [status |-> "ok", value |-> Some(found.value),
                       current_start |-> next_start]

\* SlidingWindowIter::next, its recursion included: the value returned
\* (Option<Vec<&T>>) and current_start as the call leaves it.
SlidingWindowIter_next(ix, window_millis, current_start, overflow_checks) ==
    IF current_start = None
    THEN [status |-> "ok", value |-> None, current_start |-> None]
    ELSE LET start == current_start[1]
             end == i64_checked(start + window_millis, overflow_checks)
             later == RangeKeys(ix.tree, Included(start + 1), Unbounded)
             next_start == IF later = <<>> THEN None ELSE Some(Head(later))
         IN  IF end.status = "panic"
             THEN [status |-> "panic", value |-> None,
                   current_start |-> current_start]
             ELSE
             LET found == TemporalIndex_collect(ix, Included(start),
                                                Excluded(end.value))
             IN  IF found.status = "panic"
                 THEN [status |-> "panic", value |-> None,
                       current_start |-> next_start]
                 ELSE IF found.value = <<>> /\ next_start # None
                 THEN SlidingWindowIter_next(ix, window_millis, next_start,
                                             overflow_checks)
                 ELSE IF found.value = <<>>
                 THEN [status |-> "ok", value |-> None,
                       current_start |-> next_start]
                 ELSE [status |-> "ok", value |-> Some(found.value),
                       current_start |-> next_start]

----------------------------------------------------------------------------
(* index/spatiotemporal.rs *)

SpatiotemporalIndex_new ==
    [spatial |-> SpatialIndex_new, temporal |-> TemporalIndex_new,
     items |-> <<>>, locations |-> <<>>, timestamps |-> <<>>]

SpatiotemporalIndex_insert(ix, item, location, timestamp) ==
    LET idx == Len(ix.items)
    IN  [items      |-> Append(ix.items, item),
         locations  |-> Append(ix.locations, location),
         timestamps |-> Append(ix.timestamps, timestamp),
         spatial    |-> SpatialIndex_insert(ix.spatial, idx, location),
         temporal   |-> TemporalIndex_insert(ix.temporal, idx, timestamp)]

\* A variant of query that joins the two candidate sets with a union.
SpatiotemporalIndex_query_union(ix, bounds, range) ==
    LET found == TemporalIndex_query_range(ix.temporal, range)
    IN  IF found.status = "panic" THEN Panic
        ELSE Ok(UNION {
                 {Resolve(ix.items, ord) :
                        ord \in Orderings(SeqToSet(sr) \cup SeqToSet(found.value))}
                 : sr \in SpatialIndex_query_bounds(ix.spatial, bounds)})

\* query: the two candidate sets as HashSets, their intersection resolved to
\* items.  The value is the set of vectors the call can return, one per
\* iteration order of the intersection.
SpatiotemporalIndex_query(ix, bounds, range) ==
    LET found == TemporalIndex_query_range(ix.temporal, range)
    IN  IF found.status = "panic" THEN Panic
        ELSE Ok(UNION {
                 LET spatial_indices == SeqToSet(sr)
                     temporal_indices == SeqToSet(found.value)
                 IN  {Resolve(ix.items, ord) :
                        ord \in Orderings(spatial_indices \cap temporal_indices)}
                 : sr \in SpatialIndex_query_bounds(ix.spatial, bounds)})

SpatiotemporalIndex_query_spatial(ix, bounds) ==
    {Resolve(ix.items, sr) : sr \in SpatialIndex_query_bounds(ix.spatial, bounds)}

SpatiotemporalIndex_query_temporal(ix, range) ==
    LET found == TemporalIndex_query_range(ix.temporal, range)
    IN  IF found.status = "panic" THEN Panic
        ELSE Ok(Resolve(ix.items, found.value))

\* The result v of an arithmetic operation on usize: out of range, it
\* panics in a build with overflow checks and wraps in a build without.
usize_checked(v, overflow_checks) ==
    IF v >= 0 /\ v <= UsizeMax THEN Ok(v)
    ELSE IF overflow_checks THEN Panic
    ELSE Ok(v % (UsizeMax + 1))

\* a * b on usize, in either build
usize_mul(a, b) ==
    {usize_checked(a * b, overflow_checks) : overflow_checks \in BOOLEAN}

\* .filter(|&i| temporal_indices.contains(i))
filter_contains(s, set) ==
    LET Test(i) == i \in set IN SelectSeq(s, Test)

\* The outcomes of nearest_in_range: a panic, or a vector of items.
SpatiotemporalIndex_nearest_in_range(ix, lat, lon, k, range) ==
    LET found == TemporalIndex_query_range(ix.temporal, range)
    IN  IF found.status = "panic" THEN {Panic}
        ELSE LET temporal_indices == SeqToSet(found.value)
             IN  UNION {
                   IF k2.status = "panic" THEN {Panic}
                   ELSE {Ok(Resolve(ix.items,
                                    take(filter_contains(sr, temporal_indices), k))) :
                            sr \in SpatialIndex_nearest(ix.spatial, lat, lon, k2.value)}
                   : k2 \in usize_mul(k, 2)}

SpatiotemporalIndex_time_range(ix) == TemporalIndex_time_range(ix.temporal)

SpatiotemporalIndex_bounds(ix) ==
    IF ix.locations = <<>> THEN None
    ELSE GeoBounds_from_locations(ix.locations)

SpatiotemporalIndex_len(ix) == Len(ix.items)

SpatiotemporalIndex_is_empty(ix) == ix.items = <<>>

(* GridSpec, Heatmap and SpatiotemporalIndex::heatmap *)

GridSpec_new(bounds, lat_cells, lon_cells) ==
    [bounds |-> bounds, lat_cells |-> lat_cells, lon_cells |-> lon_cells]

cell_size(grid) ==
    LET lat_size == FracDiv(Frac(grid.bounds.max_lat - grid.bounds.min_lat, 1),
                            Frac(grid.lat_cells, 1))
        lon_size == FracDiv(Frac(grid.bounds.max_lon - grid.bounds.min_lon, 1),
                            Frac(grid.lon_cells, 1))
    IN  <<lat_size, lon_size>>

\* f64 as usize: NaN and negative values give 0, values above usize::MAX
\* give usize::MAX, the others are truncated.
as_usize(x) ==
    IF x.den = 0 THEN (IF x.num > 0 THEN UsizeMax ELSE 0)
    ELSE IF x.num < 0 THEN 0
    ELSE Min2(x.num \div x.den, UsizeMax)

\* A variant of the increment that marks the cell as occupied.
counts_mark(counts, idx) == [counts EXCEPT ![idx + 1] = 1]

\* counts[idx] += 1
counts_increment(counts, idx) == [counts EXCEPT ![idx + 1] = @ + 1]

\* A variant of the maximum that reads the first cell.
counts_first(counts) == IF counts = <<>> THEN 0 ELSE counts[1]

\* counts.iter().copied().max().unwrap_or(0)
counts_max(counts) == IF counts = <<>> THEN 0 ELSE SetMax(SeqToSet(counts))

\* The body of the loop of heatmap for the n-th location and the ones after
\* it, in a build with or without overflow checks.
RECURSIVE heatmap_loop(_, _, _, _, _)
heatmap_loop(ix, grid, counts, n, overflow_checks) ==
    IF n > Len(ix.locations) THEN Ok(counts)
    ELSE
    LET loc == ix.locations[n]
        lat_size == cell_size(grid)[1]
        lon_size == cell_size(grid)[2]
        lat_idx0 == as_usize(FracDiv(Frac(loc.lat - grid.bounds.min_lat, 1), lat_size))
        lon_idx0 == as_usize(FracDiv(Frac(loc.lon - grid.bounds.min_lon, 1), lon_size))
        lat_last == usize_checked(grid.lat_cells - 1, overflow_checks)
        lon_last == usize_checked(grid.lon_cells - 1, overflow_checks)
    IN  IF ~GeoBounds_contains(grid.bounds, loc)
        THEN heatmap_loop(ix, grid, counts, n + 1, overflow_checks)
        ELSE IF lat_last.status = "panic" \/ lon_last.status = "panic" THEN Panic
        ELSE LET lat_idx == Min2(lat_idx0, lat_last.value)
                 lon_idx == Min2(lon_idx0, lon_last.value)
                 row == usize_checked(lat_idx * grid.lon_cells, overflow_checks)
             IN  IF row.status = "panic" THEN Panic
                 ELSE LET idx == usize_checked(row.value + lon_idx, overflow_checks)
                      IN  IF idx.status = "panic" THEN Panic
                          ELSE IF idx.value >= Len(counts) THEN Panic
                          ELSE heatmap_loop(ix, grid,
                                            counts_increment(counts, idx.value),
                                            n + 1, overflow_checks)

\* The outcomes of heatmap: a panic or a Heatmap, in either build.
SpatiotemporalIndex_heatmap(ix, grid) ==
    {LET cells == usize_checked(grid.lat_cells * grid.lon_cells, overflow_checks)
     IN  IF cells.status = "panic" THEN Panic
         ELSE LET counts == heatmap_loop(ix, grid, [c \in 1 .. cells.value |-> 0],
                                         1, overflow_checks)
              IN  IF counts.status = "panic" THEN Panic
                  ELSE Ok([grid |-> grid, counts |-> counts.value,
                           max_count |-> counts_max(counts.value)])
     : overflow_checks \in BOOLEAN}

Heatmap_get(heatmap, lat_idx, lon_idx) ==
    IF lat_idx >= heatmap.grid.lat_cells \/ lon_idx >= heatmap.grid.lon_cells
    THEN 0
    ELSE heatmap.counts[lat_idx * heatmap.grid.lon_cells + lon_idx + 1]

Heatmap_get_normalized(heatmap, lat_idx, lon_idx) ==
    IF heatmap.max_count = 0 THEN Frac(0, 1)
    ELSE FracDiv(Frac(Heatmap_get(heatmap, lat_idx, lon_idx), 1),
                 Frac(heatmap.max_count, 1))

\* slice::chunks: the pieces of chunk_size elements, the last one shorter
\* if the length is no multiple of it
chunks(s, chunk_size) ==
    [n \in 1 .. (Len(s) + chunk_size - 1) \div chunk_size |->
        SubSeq(s, (n - 1) * chunk_size + 1, Min2(n * chunk_size, Len(s)))]

\* to_grid; slice::chunks panics if the chunk size is 0.
Heatmap_to_grid(heatmap) ==
    IF heatmap.grid.lon_cells = 0 THEN Panic
    ELSE Ok(chunks(heatmap.counts, heatmap.grid.lon_cells))

----------------------------------------------------------------------------
(* The state machines.  One type is driven per specification; the other    *)
(* variables keep their initial values.  A query returns references into   *)
(* the index, so the caller must release a result before it can insert     *)
(* again; the caller holds one result at a time.  In the same way nothing  *)
(* is inserted while a SlidingWindowIter borrows the index.                *)

Call(op, args, status, value) ==
    [op |-> op, args |-> args, status |-> status, value |-> value]

NoCall == Call("none", <<>>, "ok", <<>>)

NoHist == [window_millis |-> 0, returned |-> <<>>]

Init ==
    /\ spatial = SpatialIndex_new
    /\ temporal = TemporalIndex_new
    /\ st = SpatiotemporalIndex_new
    /\ iter = None
    /\ hist = NoHist
    /\ out = NoCall
    /\ inserts = 0

\* The caller drops the result it holds.
Release ==
    /\ out # NoCall
    /\ out' = NoCall
    /\ UNCHANGED <<spatial, temporal, st, iter, hist, inserts>>

(* SpatialIndex on its own *)

SpatialInsert(location) ==
    /\ inserts < MaxItems
    /\ out = NoCall
    /\ spatial' = SpatialIndex_insert(spatial, Names[inserts + 1], location)
    /\ inserts' = inserts + 1
    /\ UNCHANGED <<temporal, st, iter, hist, out>>

SpatialQueryBbox(min_lat, min_lon, max_lat, max_lon) ==
    /\ out = NoCall
    /\ \E value \in SpatialIndex_query_bbox(spatial, min_lat, min_lon,
                                            max_lat, max_lon) :
          out' = Call("query_bbox", <<min_lat, min_lon, max_lat, max_lon>>,
                      "ok", value)
    /\ UNCHANGED <<spatial, temporal, st, iter, hist, inserts>>

SpatialNearest(lat, lon, k) ==
    /\ out = NoCall
    /\ \E value \in SpatialIndex_nearest(spatial, lat, lon, k) :
          out' = Call("nearest", <<lat, lon, k>>, "ok", value)
    /\ UNCHANGED <<spatial, temporal, st, iter, hist, inserts>>

SpatialNearestOne(lat, lon) ==
    /\ out = NoCall
    /\ \E value \in SpatialIndex_nearest_one(spatial, lat, lon) :
          out' = Call("nearest_one", <<lat, lon>>, "ok", value)
    /\ UNCHANGED <<spatial, temporal, st, iter, hist, inserts>>

SpatialNext ==
    \/ \E lat \in Lats, lon \in Lons : SpatialInsert(Location_new(lat, lon))
    \/ \E min_lat, max_lat \in Lats, min_lon, max_lon \in Lons :
          SpatialQueryBbox(min_lat, min_lon, max_lat, max_lon)
    \/ \E lat \in Lats, lon \in Lons, k \in Ks : SpatialNearest(lat, lon, k)
    \/ \E lat \in Lats, lon \in Lons : SpatialNearestOne(lat, lon)
    \/ Release

SpecSpatial == Init /\ [][SpatialNext]_vars

(* The radius queries of a SpatialIndex *)

SpatialQueryRadius(lat, lon, radius_degrees) ==
    /\ out = NoCall
    /\ \E value \in SpatialIndex_query_radius(spatial, lat, lon,
                                              Frac(radius_degrees, 1)) :
          out' = Call("query_radius", <<lat, lon, radius_degrees>>, "ok", value)
    /\ UNCHANGED <<spatial, temporal, st, iter, hist, inserts>>

SpatialQueryRadiusMeters(lat, lon, radius_meters) ==
    /\ out = NoCall
    /\ \E value \in SpatialIndex_query_radius_meters(spatial, lat, lon,
                                                     Frac(radius_meters, 1)) :
          out' = Call("query_radius_meters", <<lat, lon, radius_meters>>,
                      "ok", value)
    /\ UNCHANGED <<spatial, temporal, st, iter, hist, inserts>>

RadiusNext ==
    \/ \E lat \in RadiusLats, lon \in RadiusLons :
          SpatialInsert(Location_new(lat, lon))
    \/ \E lat \in RadiusLats, lon \in RadiusLons, r \in RadiusDegrees :
          SpatialQueryRadius(lat, lon, r)
    \/ \E lat \in RadiusLats, lon \in RadiusLons, r \in RadiusMeters :
          SpatialQueryRadiusMeters(lat, lon, r)
    \/ Release

SpecRadius == Init /\ [][RadiusNext]_vars

(* TemporalIndex on its own *)

TemporalInsert(timestamp) ==
    /\ inserts < MaxItems
    /\ out = NoCall
    /\ iter = None
    /\ temporal' = TemporalIndex_insert(temporal, Names[inserts + 1], timestamp)
    /\ inserts' = inserts + 1
    /\ UNCHANGED <<spatial, st, iter, hist, out>>

TemporalQuery(op, args, r) ==
    /\ out = NoCall
    /\ out' = Call(op, args, r.status, r.value)
    /\ UNCHANGED <<spatial, temporal, st, iter, hist, inserts>>

TemporalQueryRange(start, end) ==
    TemporalQuery("query_range", <<start, end>>,
                  TemporalIndex_query_range(temporal, TimeRange_new(start, end)))

TemporalBefore(ts) ==
    TemporalQuery("before", <<ts>>, TemporalIndex_before(temporal, ts))

TemporalAfter(ts) ==
    TemporalQuery("after", <<ts>>, TemporalIndex_after(temporal, ts))

TemporalAtOrBefore(ts) ==
    TemporalQuery("at_or_before", <<ts>>, TemporalIndex_at_or_before(temporal, ts))

TemporalAtOrAfter(ts) ==
    TemporalQuery("at_or_after", <<ts>>, TemporalIndex_at_or_after(temporal, ts))

TemporalFirst ==
    TemporalQuery("first", <<>>, Ok(TemporalIndex_first(temporal)))

TemporalLast ==
    TemporalQuery("last", <<>>, Ok(TemporalIndex_last(temporal)))

TemporalChronological ==
    TemporalQuery("chronological", <<>>, Ok(TemporalIndex_chronological(temporal)))

TemporalReverseChronological ==
    TemporalQuery("reverse_chronological", <<>>,
                  Ok(TemporalIndex_reverse_chronological(temporal)))

TemporalTimeRange ==
    TemporalQuery("time_range", <<>>, Ok(TemporalIndex_time_range(temporal)))

TemporalNext ==
    \/ \E ts \in Ticks : TemporalInsert(ts)
    \/ \E start, end \in Ticks : TemporalQueryRange(start, end)
    \/ \E ts \in Ticks : TemporalBefore(ts)
    \/ \E ts \in Ticks : TemporalAfter(ts)
    \/ \E ts \in Ticks : TemporalAtOrBefore(ts)
    \/ \E ts \in Ticks : TemporalAtOrAfter(ts)
    \/ TemporalFirst
    \/ TemporalLast
    \/ TemporalChronological
    \/ TemporalReverseChronological
    \/ TemporalTimeRange
    \/ Release

SpecTemporal == Init /\ [][TemporalNext]_vars

(* The sliding-window iterator of a TemporalIndex.  hist keeps what the    *)
(* iterator has returned, call by call.                                    *)

SlidingWindow(window_millis) ==
    /\ iter' = Some(TemporalIndex_sliding_window(temporal, window_millis))
    /\ hist' = [window_millis |-> window_millis, returned |-> <<>>]
    /\ UNCHANGED <<spatial, temporal, st, out, inserts>>

\* One call of next() on the live iterator; a panic unwinds and drops it.
SlidingNext ==
    /\ iter # None
    /\ Len(hist.returned) < MaxCalls
    /\ \E overflow_checks \in BOOLEAN :
       LET r == SlidingWindowIter_next(temporal, iter[1].window_millis,
                                       iter[1].current_start, overflow_checks)
       IN  /\ iter' = IF r.status = "panic" THEN None
                      ELSE Some([iter[1] EXCEPT !.current_start = r.current_start])
           /\ hist' = [hist EXCEPT !.returned =
                          Append(@, [status |-> r.status, value |-> r.value])]
    /\ UNCHANGED <<spatial, temporal, st, out, inserts>>

\* The iterator and the windows it returned go out of scope.
SlidingDrop ==
    /\ iter # None \/ hist # NoHist
    /\ iter' = None
    /\ hist' = NoHist
    /\ UNCHANGED <<spatial, temporal, st, out, inserts>>

SlidingInsert(timestamp) ==
    /\ hist = NoHist
    /\ TemporalInsert(timestamp)

SlidingNextStep ==
    \/ \E ts \in Ticks : SlidingInsert(ts)
    \/ \E window_millis \in WindowSizes : SlidingWindow(window_millis)
    \/ SlidingNext
    \/ SlidingDrop

SpecSliding == Init /\ [][SlidingNextStep]_vars

(* SpatiotemporalIndex *)

Insert(location, timestamp) ==
    /\ inserts < MaxItemsST
    /\ out = NoCall
    /\ st' = SpatiotemporalIndex_insert(st, Names[inserts + 1], location, timestamp)
    /\ inserts' = inserts + 1
    /\ UNCHANGED <<spatial, temporal, iter, hist, out>>

Query(bounds, range) ==
    /\ out = NoCall
    /\ LET r == SpatiotemporalIndex_query(st, bounds, range)
       IN  IF r.status = "panic"
           THEN out' = Call("query", <<bounds, range>>, "panic", <<>>)
           ELSE \E value \in r.value :
                   out' = Call("query", <<bounds, range>>, "ok", value)
    /\ UNCHANGED <<spatial, temporal, st, iter, hist, inserts>>

QuerySpatial(bounds) ==
    /\ out = NoCall
    /\ \E value \in SpatiotemporalIndex_query_spatial(st, bounds) :
          out' = Call("query_spatial", <<bounds>>, "ok", value)
    /\ UNCHANGED <<spatial, temporal, st, iter, hist, inserts>>

QueryTemporal(range) ==
    /\ out = NoCall
    /\ LET r == SpatiotemporalIndex_query_temporal(st, range)
       IN  out' = Call("query_temporal", <<range>>, r.status, r.value)
    /\ UNCHANGED <<spatial, temporal, st, iter, hist, inserts>>

TimeRangeOf ==
    /\ out = NoCall
    /\ out' = Call("time_range", <<>>, "ok", SpatiotemporalIndex_time_range(st))
    /\ UNCHANGED <<spatial, temporal, st, iter, hist, inserts>>

BoundsOf ==
    /\ out = NoCall
    /\ out' = Call("bounds", <<>>, "ok", SpatiotemporalIndex_bounds(st))
    /\ UNCHANGED <<spatial, temporal, st, iter, hist, inserts>>

AllBounds ==
    {GeoBounds_new(min_lat, min_lon, max_lat, max_lon) :
        min_lat \in STLats, min_lon \in STLons,
        max_lat \in STLats, max_lon \in STLons}

AllRanges == {TimeRange_new(start, end) : start \in STTicks, end \in STTicks}

Next ==
    \/ \E lat \in STLats, lon \in STLons, ts \in STTicks :
          Insert(Location_new(lat, lon), ts)
    \/ \E bounds \in AllBounds, range \in AllRanges : Query(bounds, range)
    \/ \E bounds \in AllBounds : QuerySpatial(bounds)
    \/ \E range \in AllRanges : QueryTemporal(range)
    \/ TimeRangeOf
    \/ BoundsOf
    \/ Release

Spec == Init /\ [][Next]_vars

(* SpatiotemporalIndex::nearest_in_range, on an index of up to MaxItems    *)
(* items along one parallel, with k over the whole of usize.               *)

InsertNear(location, timestamp) ==
    /\ inserts < MaxItems
    /\ out = NoCall
    /\ st' = SpatiotemporalIndex_insert(st, Names[inserts + 1], location, timestamp)
    /\ inserts' = inserts + 1
    /\ UNCHANGED <<spatial, temporal, iter, hist, out>>

NearestInRange(lat, lon, k, range) ==
    /\ out = NoCall
    /\ \E r \in SpatiotemporalIndex_nearest_in_range(st, lat, lon, k, range) :
          out' = Call("nearest_in_range", <<lat, lon, k, range>>, r.status, r.value)
    /\ UNCHANGED <<spatial, temporal, st, iter, hist, inserts>>

NearRanges ==
    {TimeRange_new(from_unix_millis(start)[1], from_unix_millis(end)[1]) :
        start \in NearMillis, end \in NearMillis}

NearNext ==
    \/ \E lat \in NearLats, lon \in NearLons, millis \in NearMillis :
          InsertNear(Location_new(lat, lon), from_unix_millis(millis)[1])
    \/ \E lat \in NearLats, lon \in NearLons, k \in 0 .. UsizeMax,
          range \in NearRanges : NearestInRange(lat, lon, k, range)
    \/ Release

SpecNear == Init /\ [][NearNext]_vars

(* SpatiotemporalIndex::heatmap, on an index of up to MaxItems items       *)

InsertHeat(location) ==
    /\ inserts < MaxItems
    /\ out = NoCall
    /\ st' = SpatiotemporalIndex_insert(st, Names[inserts + 1], location, 0)
    /\ inserts' = inserts + 1
    /\ UNCHANGED <<spatial, temporal, iter, hist, out>>

Heatmap(grid) ==
    /\ out = NoCall
    /\ \E r \in SpatiotemporalIndex_heatmap(st, grid) :
          out' = Call("heatmap", <<grid>>, r.status, r.value)
    /\ UNCHANGED <<spatial, temporal, st, iter, hist, inserts>>

\* to_grid on the Heatmap that the caller holds
ToGrid ==
    /\ out.op = "heatmap"
    /\ out.status = "ok"
    /\ LET r == Heatmap_to_grid(out.value)
       IN  out' = Call("to_grid", <<out.value>>, r.status, r.value)
    /\ UNCHANGED <<spatial, temporal, st, iter, hist, inserts>>

HeatGrids ==
    {GridSpec_new(GeoBounds_new(min_lat, min_lon, max_lat, max_lon),
                  lat_cells, lon_cells) :
        min_lat \in HeatLats, min_lon \in HeatLons,
        max_lat \in HeatLats, max_lon \in HeatLons,
        lat_cells \in HeatCells, lon_cells \in HeatCells}

HeatNext ==
    \/ \E lat \in HeatLats, lon \in HeatLons : InsertHeat(Location_new(lat, lon))
    \/ \E grid \in HeatGrids : Heatmap(grid)
    \/ ToGrid
    \/ Release

SpecHeat == Init /\ [][HeatNext]_vars

----------------------------------------------------------------------------
(* Properties *)

NoDuplicates(s) == \A m, n \in 1 .. Len(s) : m # n => s[m] # s[n]

\* The coordinate the SpatialIndex ix stores for handle h
StoredLocation(ix, h) == (CHOOSE il \in ix.tree : il.index = h).location

\* C1: after any sequence of N insert calls on an initially empty
\* SpatialIndex, TemporalIndex or SpatiotemporalIndex, len() returns N and
\* is_empty() is true exactly when N = 0.  Checked on a SpatiotemporalIndex
\* and on the SpatialIndex and the TemporalIndex it owns, which receive the
\* same N inserts.
C1_LenCountsInserts ==
    /\ SpatiotemporalIndex_len(st) = inserts
    /\ SpatialIndex_len(st.spatial) = inserts
    /\ TemporalIndex_len(st.temporal) = inserts
    /\ SpatiotemporalIndex_is_empty(st) <=> (inserts = 0)
    /\ SpatialIndex_is_empty(st.spatial) <=> (inserts = 0)
    /\ TemporalIndex_is_empty(st.temporal) <=> (inserts = 0)

\* Two inserts were made, at the same location and in the same millisecond.
C1_Witness ==
    /\ inserts = 2
    /\ SpatiotemporalIndex_len(st) = 2
    /\ ~SpatiotemporalIndex_is_empty(st)
    /\ st.locations[1] = st.locations[2]
    /\ to_unix_millis(st.timestamps[1]) = to_unix_millis(st.timestamps[2])

\* C2: for every SpatialIndex state and every four arguments, query_bbox
\* returns an inserted item if and only if its stored coordinate satisfies
\* min_lat <= lat <= max_lat and min_lon <= lon <= max_lon, each matching
\* item exactly once.
C2_BboxExact ==
    out.op = "query_bbox" =>
        LET min_lat == out.args[1]
            min_lon == out.args[2]
            max_lat == out.args[3]
            max_lon == out.args[4]
        IN  /\ NoDuplicates(out.value)
            /\ \A h \in 0 .. Len(spatial.items) - 1 :
                  LET loc == StoredLocation(spatial, h)
                  IN  spatial.items[h + 1] \in SeqToSet(out.value)
                      <=> /\ min_lat <= loc.lat /\ loc.lat <= max_lat
                          /\ min_lon <= loc.lon /\ loc.lon <= max_lon

\* The same statement for the boxes given with min <= max on both axes.
C2_BboxExactWellFormed ==
    (out.op = "query_bbox" /\ out.args[1] <= out.args[3]
                           /\ out.args[2] <= out.args[4])
        => C2_BboxExact

\* The handles of the TemporalIndex ix, its key for handle h, and the handle
\* of a stored item (the items inserted are pairwise distinct).
Handles(ix) == 0 .. Len(ix.items) - 1
KeyOf(ix, h) == to_unix_millis(ix.timestamps[h + 1])
HandleOf(ix, item) == CHOOSE h \in Handles(ix) : ix.items[h + 1] = item

\* value holds exactly the items of the handles in H, each once, by
\* ascending key and, inside a key, in insertion order.
ExactlyInOrder(ix, value, H) ==
    /\ NoDuplicates(value)
    /\ SeqToSet(value) = {ix.items[h + 1] : h \in H}
    /\ \A m, n \in 1 .. Len(value) :
          m < n =>
              LET hm == HandleOf(ix, value[m])
                  hn == HandleOf(ix, value[n])
              IN  \/ KeyOf(ix, hm) < KeyOf(ix, hn)
                  \/ KeyOf(ix, hm) = KeyOf(ix, hn) /\ hm < hn

\* C3: TemporalIndex::query_range(range) returns exactly the items whose
\* millisecond key lies in [range.start, range.end], both bounds inclusive,
\* ordered by ascending key and, among items with the same key, in the
\* order they were inserted.
C3_QueryRangeExact ==
    out.op = "query_range" =>
        LET start_key == to_unix_millis(out.args[1])
            end_key == to_unix_millis(out.args[2])
        IN  /\ out.status = "ok"
            /\ ExactlyInOrder(temporal, out.value,
                   {h \in Handles(temporal) :
                       start_key <= KeyOf(temporal, h)
                       /\ KeyOf(temporal, h) <= end_key})

\* The same statement for the calls of query_range that return.
C3_QueryRangeExactWhenReturns ==
    (out.op = "query_range" /\ out.status = "panic") \/ C3_QueryRangeExact

\* C4: for every SpatiotemporalIndex state, every bounds and every range,
\* query(bounds, range) returns exactly the inserted items for which both
\* bounds.contains(location) and range.contains(timestamp) are true, where
\* location and timestamp are the values given at insertion.
C4_QueryIsContainsBoth ==
    out.op = "query" =>
        LET bounds == out.args[1]
            range == out.args[2]
        IN  /\ out.status = "ok"
            /\ NoDuplicates(out.value)
            /\ SeqToSet(out.value) =
                  {st.items[h + 1] : h \in
                      {h \in 0 .. Len(st.items) - 1 :
                          /\ GeoBounds_contains(bounds, st.locations[h + 1])
                          /\ TimeRange_contains(range, st.timestamps[h + 1])}}

WholeMillis(ts) == ts % TicksPerMilli = 0

\* The same statement where the bounds and the range are given with
\* min <= max and every timestamp involved is a whole number of milliseconds.
C4_QueryIsContainsBothWellFormed ==
    (/\ out.op = "query"
     /\ out.args[1].min_lat <= out.args[1].max_lat
     /\ out.args[1].min_lon <= out.args[1].max_lon
     /\ out.args[2].start <= out.args[2].end
     /\ WholeMillis(out.args[2].start) /\ WholeMillis(out.args[2].end)
     /\ \A n \in 1 .. Len(st.timestamps) : WholeMillis(st.timestamps[n]))
        => C4_QueryIsContainsBoth

\* C5: for every SpatiotemporalIndex state, bounds and range, the set of
\* items returned by query(bounds, range) equals the intersection, taken
\* over item handles, of the results of query_spatial(bounds) and
\* query_temporal(range), and no handle appears twice in the result.  query
\* returns whenever the two other calls return.
C5_QueryIsIntersection ==
    out.op = "query" =>
        LET bounds == out.args[1]
            range == out.args[2]
            temporal_result == SpatiotemporalIndex_query_temporal(st, range)
            HandlesIn(value) ==
                {h \in 0 .. Len(st.items) - 1 : st.items[h + 1] \in SeqToSet(value)}
        IN  /\ out.status = temporal_result.status
            /\ out.status = "ok" =>
                  /\ NoDuplicates(out.value)
                  /\ \A spatial_result \in
                          SpatiotemporalIndex_query_spatial(st, bounds) :
                        HandlesIn(out.value) =
                            HandlesIn(spatial_result)
                                \cap HandlesIn(temporal_result.value)

\* query returned one of two stored items: both are in the range, one is
\* outside the bounds.
C5_Witness ==
    /\ out.op = "query"
    /\ out.status = "ok"
    /\ Len(out.value) = 1
    /\ Len(SpatiotemporalIndex_query_temporal(st, out.args[2]).value) = 2
    /\ \E spatial_result \in SpatiotemporalIndex_query_spatial(st, out.args[1]) :
          Len(spatial_result) = 1

\* The calls of next() on the latest iterator that returned a window, and
\* the window the n-th call returned.
Yielded ==
    {n \in 1 .. Len(hist.returned) :
        hist.returned[n].status = "ok" /\ hist.returned[n].value # None}
Window(n) == hist.returned[n].value[1]

\* C6: every window yielded by the iterator returned from
\* TemporalIndex::sliding_window contains at least one item; an empty
\* window is never yielded, whatever the keys and the window duration.
C6_NoEmptyWindow == \A n \in Yielded : Window(n) # <<>>

\* An iterator has yielded two windows, the second of one item.
C6_Witness ==
    /\ {1, 2} \subseteq Yielded
    /\ Len(Window(2)) = 1

\* C7: the windows yielded by sliding_window(d) partition the index:
\* consecutive windows do not overlap in time (every item of a later window
\* has a key at least d after the start of the preceding window), so no
\* item is yielded in two different windows.
C7_WindowsDisjoint ==
    \A m, n \in Yielded :
        m < n =>
            /\ SeqToSet(Window(m)) \cap SeqToSet(Window(n)) = {}
            /\ n = m + 1 =>
                  \A k \in 1 .. Len(Window(n)) :
                      KeyOf(temporal, HandleOf(temporal, Window(n)[k]))
                          >= KeyOf(temporal, HandleOf(temporal, Window(m)[1]))
                             + hist.window_millis

\* C8: for any TemporalIndex and any positive window duration, the
\* sliding_window sequence is finite: the iterator reports the end after at
\* most as many windows as the index has keys, and once it has reported the
\* end it keeps reporting the end.
C8_WindowsEnd ==
    hist.window_millis > 0 =>
        /\ \A n \in 1 .. Len(hist.returned) : hist.returned[n].status = "ok"
        /\ \A n \in 1 .. Len(hist.returned) :
              n > Cardinality(DOMAIN temporal.tree)
                  => hist.returned[n].value = None
        /\ \A m, n \in 1 .. Len(hist.returned) :
              (m < n /\ hist.returned[m].value = None)
                  => hist.returned[n].value = None

\* An iterator over two keys yielded two windows and then reported the end
\* twice.
C8_Witness ==
    /\ hist.window_millis > 0
    /\ Cardinality(DOMAIN temporal.tree) = 2
    /\ Len(hist.returned) = 4
    /\ Yielded = {1, 2}
    /\ hist.returned[3].value = None
    /\ hist.returned[4].value = None

\* Every stored item of the TemporalIndex is in exactly one of the results
\* x and y.
Partitions(x, y) ==
    /\ x.status = "ok" /\ y.status = "ok"
    /\ NoDuplicates(x.value) /\ NoDuplicates(y.value)
    /\ SeqToSet(x.value) \cap SeqToSet(y.value) = {}
    /\ SeqToSet(x.value) \cup SeqToSet(y.value) = SeqToSet(temporal.items)

\* C9: for every timestamp ts and every TemporalIndex state, before(ts) and
\* at_or_after(ts) partition the full item set: every inserted item is in
\* exactly one of the two results; the same holds for at_or_before(ts) and
\* after(ts).
C9_BeforeAfterPartition ==
    LET ts == out.args[1]
    IN  /\ out.op = "before" =>
              Partitions(out, TemporalIndex_at_or_after(temporal, ts))
        /\ out.op = "at_or_after" =>
              Partitions(TemporalIndex_before(temporal, ts), out)
        /\ out.op = "at_or_before" =>
              Partitions(out, TemporalIndex_after(temporal, ts))
        /\ out.op = "after" =>
              Partitions(TemporalIndex_at_or_before(temporal, ts), out)

\* after(ts) returned one item while another is stored in the millisecond
\* of ts and a third one earlier.
C9_Witness ==
    /\ out.op = "after"
    /\ Len(out.value) = 1
    /\ Len(temporal.items) = 3
    /\ \E h \in Handles(temporal) :
          KeyOf(temporal, h) = to_unix_millis(out.args[1])
    /\ \E h \in Handles(temporal) :
          KeyOf(temporal, h) < to_unix_millis(out.args[1])

DistanceOf(ix, item, lat, lon) ==
    LET h == CHOOSE h \in 0 .. Len(ix.items) - 1 : ix.items[h + 1] = item
        loc == StoredLocation(ix, h)
    IN  (loc.lat - lat) * (loc.lat - lat) + (loc.lon - lon) * (loc.lon - lon)

\* C11: nearest_one(lat, lon) returns None if and only if the SpatialIndex
\* is empty; on a non-empty index it returns an item whose planar squared
\* distance to (lat, lon) is the minimum over all inserted items, as a
\* scan over all the items finds it.
C11_NearestOneIsMinimum ==
    out.op = "nearest_one" =>
        LET lat == out.args[1]
            lon == out.args[2]
        IN  /\ out.value = None <=> SpatialIndex_is_empty(spatial)
            /\ out.value # None =>
                  /\ out.value[1] \in SeqToSet(spatial.items)
                  /\ \A item \in SeqToSet(spatial.items) :
                        DistanceOf(spatial, out.value[1], lat, lon)
                            <= DistanceOf(spatial, item, lat, lon)

\* nearest_one returned the item inserted last, which is strictly nearer
\* than the two inserted before it.
C11_Witness ==
    /\ out.op = "nearest_one"
    /\ Len(spatial.items) = 3
    /\ out.value = Some(spatial.items[3])
    /\ \A n \in 1 .. 2 :
          DistanceOf(spatial, spatial.items[3], out.args[1], out.args[2])
              < DistanceOf(spatial, spatial.items[n], out.args[1], out.args[2])

\* C12: nearest(lat, lon, k) returns exactly min(k, len()) distinct items,
\* in non-decreasing order of distance to the query point, and no item
\* left out is strictly closer than an item returned.
C12_NearestK ==
    out.op = "nearest" =>
        LET lat == out.args[1]
            lon == out.args[2]
            k == out.args[3]
        IN  /\ Len(out.value) = Min2(k, SpatialIndex_len(spatial))
            /\ NoDuplicates(out.value)
            /\ SeqToSet(out.value) \subseteq SeqToSet(spatial.items)
            /\ \A m, n \in 1 .. Len(out.value) :
                  m < n => DistanceOf(spatial, out.value[m], lat, lon)
                              <= DistanceOf(spatial, out.value[n], lat, lon)
            /\ \A left \in SeqToSet(spatial.items) \ SeqToSet(out.value) :
                  \A got \in SeqToSet(out.value) :
                      DistanceOf(spatial, left, lat, lon)
                          >= DistanceOf(spatial, got, lat, lon)

\* nearest with k = 2 on three items at three different distances returned
\* the two nearer ones, the nearest of them inserted last.
C12_Witness ==
    /\ out.op = "nearest"
    /\ out.args[3] = 2
    /\ Len(spatial.items) = 3
    /\ out.value = <<spatial.items[3], spatial.items[1]>>
    /\ DistanceOf(spatial, spatial.items[3], out.args[1], out.args[2])
          < DistanceOf(spatial, spatial.items[1], out.args[1], out.args[2])
    /\ DistanceOf(spatial, spatial.items[1], out.args[1], out.args[2])
          < DistanceOf(spatial, spatial.items[2], out.args[1], out.args[2])

\* The squared planar distance from the location stored for handle h of
\* the SpatiotemporalIndex to the point (lat, lon)
DistanceOfHandle(ix, h, lat, lon) ==
    LET loc == ix.locations[h + 1]
    IN  (loc.lat - lat) * (loc.lat - lat) + (loc.lon - lon) * (loc.lon - lon)

\* The handles of the SpatiotemporalIndex, nearest to (lat, lon) first, in
\* every order that the distances allow
NearestFirst(ix, lat, lon) ==
    {ord \in Orderings(Handles(ix)) :
        \A m, n \in 1 .. Len(ix.items) :
            m < n => DistanceOfHandle(ix, ord[m], lat, lon)
                        <= DistanceOfHandle(ix, ord[n], lat, lon)}

\* The first k of the 2 * k nearest handles whose key lies in the range
FirstKInRange(ix, ord, k, range) ==
    LET InRange(h) ==
            /\ KeyOf(ix, h) >= to_unix_millis(range.start)
            /\ KeyOf(ix, h) <= to_unix_millis(range.end)
        candidates == SubSeq(ord, 1, Min2(2 * k, Len(ord)))
        kept == SelectSeq(candidates, InRange)
    IN  SubSeq(kept, 1, Min2(k, Len(kept)))

\* C13: nearest_in_range(lat, lon, k, range) returns exactly the first k
\* (or all, if fewer) of the 2*k spatially nearest items whose handle is in
\* the temporal result for range, in ascending distance order; it never
\* returns an item outside the range or more than k items, and it returns
\* fewer than k items when fewer than k of those 2*k candidates are in
\* range, even if further in-range items exist.
C13_NearestInRange ==
    out.op = "nearest_in_range" =>
        LET lat == out.args[1]
            lon == out.args[2]
            k == out.args[3]
            range == out.args[4]
        IN  /\ out.status = "ok"
            /\ \E ord \in NearestFirst(st, lat, lon) :
                  out.value = Resolve(st.items, FirstKInRange(st, ord, k, range))

\* The same, for the calls whose range has start <= end and whose 2*k is
\* within usize.
C13_NearestInRangeWellFormed ==
    (/\ out.op = "nearest_in_range"
     /\ out.args[4].start <= out.args[4].end
     /\ 2 * out.args[3] <= UsizeMax)
        => C13_NearestInRange

\* k = 1: the two nearest items are out of range, a third one is in range,
\* and nothing is returned.
C13_WitnessFewer ==
    /\ out.op = "nearest_in_range"
    /\ out.status = "ok"
    /\ out.args[3] = 1
    /\ out.value = <<>>
    /\ \E h \in Handles(st) :
          /\ KeyOf(st, h) >= to_unix_millis(out.args[4].start)
          /\ KeyOf(st, h) <= to_unix_millis(out.args[4].end)

\* C14: query_radius(lat, lon, radius_degrees) returns exactly the items
\* whose planar Euclidean distance in degree space to (lat, lon) is less
\* than or equal to radius_degrees, for every value of radius_degrees
\* including zero and negative values.  A distance d is at most r exactly
\* when r >= 0 and d * d <= r * r.
C14_RadiusExact ==
    out.op = "query_radius" =>
        LET lat == out.args[1]
            lon == out.args[2]
            r == out.args[3]
        IN  /\ NoDuplicates(out.value)
            /\ SeqToSet(out.value) =
                  {item \in SeqToSet(spatial.items) :
                      /\ r >= 0
                      /\ DistanceOf(spatial, item, lat, lon) <= r * r}

\* The same, for the radii that are not negative.
C14_RadiusExactNonNegative ==
    (out.op = "query_radius" /\ out.args[3] >= 0) => C14_RadiusExact

\* An upper bound, in fractions of a meter, on the great-circle distance of
\* two points on one parallel: the arc of the parallel between them, which
\* is cos(lat) times the arc of the equator; cos(0) = 1 and cos(60) = 1/2.
ParallelArc(lat, lon1, lon2) ==
    FracMul(Frac(MetersPerDegree * Abs(lon1 - lon2), 1),
            IF lat = 60 THEN Frac(1, 2) ELSE Frac(1, 1))

\* C15: for every query point, every radius r in meters and every index
\* state, query_radius_meters(lat, lon, r) returns a superset of the
\* inserted items whose true great-circle distance to the query point is
\* at most r: it may over-fetch but never under-fetches, at any latitude.
\* Stated for the items on the parallel of the query point, which are
\* within r whenever the arc of the parallel to them is.
C15_MetersNeverUnderFetch ==
    out.op = "query_radius_meters" =>
        LET lat == out.args[1]
            lon == out.args[2]
            r == out.args[3]
        IN  \A h \in 0 .. Len(spatial.items) - 1 :
                LET loc == StoredLocation(spatial, h)
                    arc == ParallelArc(lat, lon, loc.lon)
                IN  (loc.lat = lat /\ arc.num <= r * arc.den)
                        => spatial.items[h + 1] \in SeqToSet(out.value)

\* The same, for the query points on the equator.
C15_MetersNeverUnderFetchEquator ==
    (out.op = "query_radius_meters" /\ out.args[1] = 0)
        => C15_MetersNeverUnderFetch

RECURSIVE SeqSum(_)
SeqSum(s) == IF s = <<>> THEN 0 ELSE s[1] + SeqSum(Tail(s))

\* The number of stored locations that the bounds contain
InBounds(ix, bounds) ==
    Cardinality({n \in 1 .. Len(ix.locations) :
                    GeoBounds_contains(bounds, ix.locations[n])})

\* C16: for every SpatiotemporalIndex state and every grid with at least
\* one cell in each dimension, the sum of all cell counts of heatmap(grid)
\* equals the number of stored locations for which
\* grid.bounds.contains(location) is true; locations outside the bounds add
\* to no cell.
C16_HeatmapConservation ==
    (/\ out.op = "heatmap"
     /\ out.args[1].lat_cells >= 1
     /\ out.args[1].lon_cells >= 1)
        => /\ out.status = "ok"
           /\ Len(out.value.counts) = out.args[1].lat_cells * out.args[1].lon_cells
           /\ SeqSum(out.value.counts) = InBounds(st, out.args[1].bounds)

\* A heatmap of 2 x 2 cells over three locations: two of them in one cell,
\* the third outside the bounds.
C16_Witness ==
    /\ out.op = "heatmap"
    /\ out.status = "ok"
    /\ out.args[1].lat_cells = 2
    /\ out.args[1].lon_cells = 2
    /\ Len(st.locations) = 3
    /\ InBounds(st, out.args[1].bounds) = 2
    /\ 2 \in SeqToSet(out.value.counts)

\* The cells of a heatmap, as pairs of indices
Cells(heatmap) ==
    (0 .. heatmap.grid.lat_cells - 1) \X (0 .. heatmap.grid.lon_cells - 1)

\* C17: in every Heatmap produced by heatmap(grid), max_count equals the
\* maximum single-cell count (0 when no location is in bounds);
\* get_normalized returns exactly 1.0 at a cell holding max_count when
\* max_count > 0, and returns 0.0 for every cell when max_count is 0.
C17_MaxCountAndNormalized ==
    (out.op = "heatmap" /\ out.status = "ok") =>
        LET heatmap == out.value
        IN  /\ \A c \in Cells(heatmap) :
                  Heatmap_get(heatmap, c[1], c[2]) <= heatmap.max_count
            /\ \/ \E c \in Cells(heatmap) :
                     Heatmap_get(heatmap, c[1], c[2]) = heatmap.max_count
               \/ heatmap.max_count = 0
            /\ InBounds(st, heatmap.grid.bounds) = 0 => heatmap.max_count = 0
            /\ heatmap.max_count > 0 =>
                  \A c \in Cells(heatmap) :
                      Heatmap_get(heatmap, c[1], c[2]) = heatmap.max_count
                          => Heatmap_get_normalized(heatmap, c[1], c[2]) = Frac(1, 1)
            /\ heatmap.max_count = 0 =>
                  \A c \in Cells(heatmap) :
                      Heatmap_get_normalized(heatmap, c[1], c[2]) = Frac(0, 1)

\* A heatmap whose fullest cell is not the first one and holds two
\* locations, next to a cell that holds one.
C17_Witness ==
    /\ out.op = "heatmap"
    /\ out.status = "ok"
    /\ out.value.max_count = 2
    /\ Len(out.value.counts) >= 2
    /\ out.value.counts[1] = 1
    /\ Heatmap_get_normalized(out.value, 0, 0) = Frac(1, 2)

\* The smallest and the largest key of the TemporalIndex
MinKey(ix) == SetMin({KeyOf(ix, h) : h \in Handles(ix)})
MaxKey(ix) == SetMax({KeyOf(ix, h) : h \in Handles(ix)})

\* C18: first() and last() return None exactly when the TemporalIndex is
\* empty; otherwise first() returns the earliest-inserted item among those
\* with the smallest key and last() returns the latest-inserted item among
\* those with the largest key, regardless of the order in which keys were
\* inserted.
C18_FirstLast ==
    /\ out.op = "first" =>
          /\ out.value = None <=> TemporalIndex_is_empty(temporal)
          /\ out.value # None =>
                out.value[1] = temporal.items[
                    SetMin({h \in Handles(temporal) :
                               KeyOf(temporal, h) = MinKey(temporal)}) + 1]
    /\ out.op = "last" =>
          /\ out.value = None <=> TemporalIndex_is_empty(temporal)
          /\ out.value # None =>
                out.value[1] = temporal.items[
                    SetMax({h \in Handles(temporal) :
                               KeyOf(temporal, h) = MaxKey(temporal)}) + 1]

\* first() returned the second of three items: the first one inserted has
\* a larger key, the third one the same key as the second.
C18_Witness ==
    /\ out.op = "first"
    /\ Len(temporal.items) = 3
    /\ out.value = Some(temporal.items[2])
    /\ KeyOf(temporal, 0) > KeyOf(temporal, 1)
    /\ KeyOf(temporal, 2) = KeyOf(temporal, 1)

\* C19: chronological() returns every inserted item exactly once, sorted by
\* ascending key with insertion order inside a key, whatever the order of
\* insertion; reverse_chronological() returns exactly the reverse of that
\* sequence.
C19_Chronological ==
    /\ out.op = "chronological" =>
          ExactlyInOrder(temporal, out.value, Handles(temporal))
    /\ out.op = "reverse_chronological" =>
          /\ Len(out.value) = Len(temporal.items)
          /\ ExactlyInOrder(temporal,
                 [n \in 1 .. Len(out.value) |-> out.value[Len(out.value) + 1 - n]],
                 Handles(temporal))

\* reverse_chronological() on three items inserted latest key first, the
\* other two sharing the smaller key.
C19_Witness ==
    /\ out.op = "reverse_chronological"
    /\ Len(temporal.items) = 3
    /\ KeyOf(temporal, 0) > KeyOf(temporal, 1)
    /\ KeyOf(temporal, 1) = KeyOf(temporal, 2)
    /\ out.value = <<temporal.items[1], temporal.items[3], temporal.items[2]>>

\* C20: time_range() of a TemporalIndex (and of a SpatiotemporalIndex,
\* which delegates to it) is None exactly when the index is empty;
\* otherwise its start is the smallest inserted key and its end the largest
\* inserted key, after any sequence of inserts in any order.
C20_TimeRange ==
    out.op = "time_range" =>
        /\ out.value = TemporalIndex_time_range(st.temporal)
        /\ out.value = None <=> SpatiotemporalIndex_is_empty(st)
        /\ out.value # None =>
              /\ to_unix_millis(out.value[1].start) = MinKey(st.temporal)
              /\ to_unix_millis(out.value[1].end) = MaxKey(st.temporal)
              /\ out.value[1].start = MinKey(st.temporal) * TicksPerMilli
              /\ out.value[1].end = MaxKey(st.temporal) * TicksPerMilli

\* time_range() on two items, the one with the larger key inserted first
C20_Witness ==
    /\ out.op = "time_range"
    /\ Len(st.items) = 2
    /\ KeyOf(st.temporal, 0) > KeyOf(st.temporal, 1)
    /\ out.value # None
    /\ to_unix_millis(out.value[1].start) = KeyOf(st.temporal, 1)
    /\ to_unix_millis(out.value[1].end) = KeyOf(st.temporal, 0)

\* C21: SpatiotemporalIndex::bounds() is None exactly when the index is
\* empty; otherwise it is the tight union bounding box of all stored
\* locations: min_lat/min_lon are the minima and max_lat/max_lon the maxima
\* over the inserted locations, so it contains every stored location.
C21_BoundsTight ==
    out.op = "bounds" =>
        LET lats == {st.locations[n].lat : n \in 1 .. Len(st.locations)}
            lons == {st.locations[n].lon : n \in 1 .. Len(st.locations)}
        IN  /\ out.value = None <=> SpatiotemporalIndex_is_empty(st)
            /\ out.value # None =>
                  /\ out.value[1].min_lat = SetMin(lats)
                  /\ out.value[1].max_lat = SetMax(lats)
                  /\ out.value[1].min_lon = SetMin(lons)
                  /\ out.value[1].max_lon = SetMax(lons)
                  /\ \A n \in 1 .. Len(st.locations) :
                        GeoBounds_contains(out.value[1], st.locations[n])

\* bounds() on two locations, the second one to the south-west of the first
C21_Witness ==
    /\ out.op = "bounds"
    /\ Len(st.locations) = 2
    /\ st.locations[2].lat < st.locations[1].lat
    /\ st.locations[2].lon < st.locations[1].lon
    /\ out.value = Some(GeoBounds_new(st.locations[2].lat, st.locations[2].lon,
                                      st.locations[1].lat, st.locations[1].lon))

\* C22: a query_bbox or query_bounds call with an inverted box
\* (min_lat > max_lat or min_lon > max_lon) is not rejected and returns an
\* empty result, whatever items are stored.
C22_InvertedBoxEmpty ==
    (/\ out.op = "query_bbox"
     /\ \/ out.args[1] > out.args[3]
        \/ out.args[2] > out.args[4])
        => out.status = "ok" /\ out.value = <<>>

\* C23: no temporal query fails on a malformed range: query_range,
\* query_temporal, query and nearest_in_range called with a TimeRange whose
\* start is later than its end complete normally and return an empty
\* result.
C23_InvertedRangeEmpty ==
    (out.op = "query_range" /\ out.args[1] > out.args[2])
        => out.status = "ok" /\ out.value = <<>>

\* The same, for the indexes that hold no item.
C23_InvertedRangeEmptyIndex ==
    (out.op = "query_range" /\ temporal.items = <<>>) => C23_InvertedRangeEmpty

\* The handles of bucket that were given out before the n-th insert
Older(bucket, n) == LET Test(h) == h < n IN SelectSeq(bucket, Test)

C25_OneEntryPerItem ==
    LET n == Len(st.items)
        tree == st.temporal.tree
    IN  /\ Len(st.locations) = n
        /\ Len(st.timestamps) = n
        /\ SpatialIndex_len(st.spatial) = n
        /\ TemporalIndex_len(st.temporal) = n
        /\ Cardinality(st.spatial.tree) = n
        /\ {il.index : il \in st.spatial.tree} = 0 .. n - 1
        /\ \A il \in st.spatial.tree : il.location = st.locations[il.index + 1]
        /\ SeqSum([m \in 1 .. Cardinality(DOMAIN tree) |->
                      Len(tree[SortedSeq(DOMAIN tree)[m]])]) = n
        /\ \A h \in 0 .. n - 1 :
              \A k \in DOMAIN tree :
                  Cardinality({m \in 1 .. Len(tree[k]) : tree[k][m] = h})
                      = IF k = to_unix_millis(st.timestamps[h + 1]) THEN 1 ELSE 0
        /\ \A i \in 0 .. n - 1 :
              /\ st.spatial.items[i + 1] = i
              /\ st.temporal.items[i + 1] = i
              /\ st.temporal.timestamps[i + 1] = st.timestamps[i + 1]

\* Two items at one location, in two different milliseconds
C25_Witness ==
    /\ Len(st.items) = 2
    /\ st.locations[1] = st.locations[2]
    /\ Cardinality(st.spatial.tree) = 2
    /\ Cardinality(DOMAIN st.temporal.tree) = 2

\* The cell index that the clamped floor gives a coordinate at offset
\* (coordinate - minimum) of a span (maximum - minimum) cut in cells cells
ClampedFloor(offset, span, cells) ==
    IF span = 0 THEN 0
    ELSE LET floor == (offset * cells) \div span
         IN  IF floor > cells - 1 THEN cells - 1 ELSE floor

\* The number of stored locations inside the bounds of the grid that fall
\* in the cell (lat_idx, lon_idx)
CountedIn(ix, grid, lat_idx, lon_idx) ==
    Cardinality({n \in 1 .. Len(ix.locations) :
        /\ GeoBounds_contains(grid.bounds, ix.locations[n])
        /\ ClampedFloor(ix.locations[n].lat - grid.bounds.min_lat,
                        grid.bounds.max_lat - grid.bounds.min_lat,
                        grid.lat_cells) = lat_idx
        /\ ClampedFloor(ix.locations[n].lon - grid.bounds.min_lon,
                        grid.bounds.max_lon - grid.bounds.min_lon,
                        grid.lon_cells) = lon_idx})

\* C26: in heatmap(grid) with at least one cell per dimension, every
\* in-bounds location is counted in a cell whose indices satisfy
\* lat_idx <= lat_cells-1 and lon_idx <= lon_cells-1: the floor-computed
\* indices are clamped, so a location exactly on max_lat or max_lon is
\* counted in the last row or column and no cell index is ever out of
\* range.
C26_IndicesClamped ==
    (/\ out.op = "heatmap"
     /\ out.args[1].lat_cells >= 1
     /\ out.args[1].lon_cells >= 1)
        => /\ out.status = "ok"
           /\ \A c \in Cells(out.value) :
                 Heatmap_get(out.value, c[1], c[2])
                     = CountedIn(st, out.args[1], c[1], c[2])

\* A grid of 2 x 2 cells over bounds that are not degenerate, with a
\* location on the corner (max_lat, max_lon) counted in the last cell.
C26_Witness ==
    /\ out.op = "heatmap"
    /\ out.status = "ok"
    /\ out.args[1].lat_cells = 2
    /\ out.args[1].lon_cells = 2
    /\ out.args[1].bounds.min_lat < out.args[1].bounds.max_lat
    /\ out.args[1].bounds.min_lon < out.args[1].bounds.max_lon
    /\ \E n \in 1 .. Len(st.locations) :
          /\ st.locations[n].lat = out.args[1].bounds.max_lat
          /\ st.locations[n].lon = out.args[1].bounds.max_lon
    /\ Heatmap_get(out.value, 1, 1) >= 1

\* The sum start + window_millis stays within i64 for every key of the
\* index.
WindowFits ==
    \A k \in DOMAIN temporal.tree :
        /\ k + hist.window_millis <= I64Max
        /\ k + hist.window_millis >= -I64Max - 1

\* The statement of C8, for the positive durations d with start + d
\* within i64.
C8_WindowsEndWhenFits == WindowFits => C8_WindowsEnd

\* C27: for a positive window duration d, sliding_window(d) yields exactly
\* one window per distinct key of the index: the n-th window starts at the
\* n-th smallest key and holds the items with key in [start, start + d),
\* so every inserted item appears in at least one yielded window.
C27_OneWindowPerKey ==
    hist.window_millis > 0 =>
        LET keys == SortedSeq(DOMAIN temporal.tree)
        IN  \A n \in 1 .. Len(hist.returned) :
                /\ hist.returned[n].status = "ok"
                /\ n > Len(keys) => hist.returned[n].value = None
                /\ n <= Len(keys) =>
                      /\ hist.returned[n].value # None
                      /\ ExactlyInOrder(temporal, Window(n),
                             {h \in Handles(temporal) :
                                 /\ KeyOf(temporal, h) >= keys[n]
                                 /\ KeyOf(temporal, h) < keys[n] + hist.window_millis})

\* The same, for the durations d with start + d within i64.
C27_OneWindowPerKeyWhenFits == WindowFits => C27_OneWindowPerKey

\* An iterator with d = 2 ms over the keys 0, 1 and 2 ms has yielded the
\* three windows and reported the end.
C27_WitnessThreeKeys ==
    /\ hist.window_millis = 2
    /\ DOMAIN temporal.tree = {0, 1, 2}
    /\ Len(hist.returned) = 4
    /\ Yielded = {1, 2, 3}
    /\ Len(Window(1)) = 2
    /\ Len(Window(3)) = 1

\* C28: sliding_window called with a zero or negative window duration on a
\* non-empty index does not fail: the iterator yields no window and reports
\* the end after finitely many steps.
C28_NonPositiveWindowEnds ==
    (hist.window_millis <= 0 /\ temporal.items # <<>>) =>
        \A n \in 1 .. Len(hist.returned) :
            /\ hist.returned[n].status = "ok"
            /\ hist.returned[n].value = None

\* The same, for the zero duration.
C28_ZeroWindowEnds ==
    (hist.window_millis = 0 /\ iter # None) => C28_NonPositiveWindowEnds

\* C29: heatmap(grid) and Heatmap::to_grid complete without failure for
\* every GridSpec, including one built with lat_cells = 0 or lon_cells = 0
\* while the index holds a location inside grid.bounds; the result then has
\* no cells and max_count 0.
C29_HeatmapNeverFails ==
    /\ out.op = "heatmap" =>
          /\ out.status = "ok"
          /\ (out.args[1].lat_cells = 0 \/ out.args[1].lon_cells = 0) =>
                out.value.counts = <<>> /\ out.value.max_count = 0
    /\ out.op = "to_grid" => out.status = "ok"

\* The same, for the grids with at least one cell in each dimension.
C29_HeatmapNeverFailsWithCells ==
    /\ (/\ out.op = "heatmap"
        /\ out.args[1].lat_cells >= 1
        /\ out.args[1].lon_cells >= 1) => out.status = "ok"
    /\ (out.op = "to_grid" /\ out.args[1].grid.lon_cells >= 1)
          => out.status = "ok"

\* C30: for every non-empty TemporalIndex, the TimeRange returned by
\* time_range() contains (TimeRange::contains) the timestamp of every
\* inserted item, including timestamps that carry a sub-millisecond part.
C30_TimeRangeContainsAll ==
    (out.op = "time_range" /\ temporal.items # <<>>) =>
        /\ out.value # None
        /\ \A n \in 1 .. Len(temporal.timestamps) :
              TimeRange_contains(out.value[1], temporal.timestamps[n])

\* The same, for the indexes whose timestamps are all whole milliseconds.
C30_TimeRangeContainsWholeMillis ==
    (\A n \in 1 .. Len(temporal.timestamps) : WholeMillis(temporal.timestamps[n]))
        => C30_TimeRangeContainsAll

============================================================================
